---- MODULE Spec2Model ----
(***************************************************************************)
(* A model of the core of ShineOn-Virtual-Tryon:                           *)
(*   - SamsGenerator (models/networks/sams/sams_generator.py): the         *)
(*     architecture builder __init__ and the forward pass;                 *)
(*   - MultiSpade (models/networks/sams/multispade.py): the sequential     *)
(*     conditional normalization stack;                                    *)
(*   - UnetMaskModel (models/unet_mask_model.py): the temporal compositor  *)
(*     forward, training_step and test_step.                               *)
(* Tensors are modelled by what the code reads of them: their shapes in    *)
(* the generator, the chain of sub-layer applications in MultiSpade, and   *)
(* one fixed-point value per frame in the compositor.                      *)
(***************************************************************************)
EXTENDS Integers, Sequences, FiniteSets, TLC

VARIABLES
    \* ---- SamsGenerator ----
    hparams,        \* the hyperparameters handed to SamsGenerator.__init__
    gen_status,     \* "new" | "built" | "AssertionError"
    in_channels,    \* self.in_channels
    encode_layers,  \* self.encode_layers
    middle_layers,  \* self.middle_layers
    decode_layers,  \* self.decode_layers
    fwd,            \* what the last SamsGenerator.forward call did
    \* ---- MultiSpade ----
    ms_status,      \* "new" | "built"
    spade_layers,   \* self.spade_layers: the (key, label_nc) entries, in insertion order
    ms_out,         \* what the last MultiSpade.forward call did
    \* ---- UnetMaskModel ----
    um_status,      \* "new" | "built"
    um_hparams,     \* self.hparams: flow, n_frames_total
    prev_frame,     \* self.prev_frame
    um_out          \* what the last training_step or test_step call did

gen_vars == <<hparams, gen_status, in_channels, encode_layers, middle_layers,
              decode_layers, fwd>>

ms_vars == <<ms_status, spade_layers, ms_out>>

um_vars == <<um_status, um_hparams, prev_frame, um_out>>

vars == <<gen_vars, ms_vars, um_vars>>

(***************************************************************************)
(* Bounds of the model.                                                    *)
(***************************************************************************)
MaxBase == 3
MaxPow == 3
MaxStep == 3
MaxMiddle == 1
MaxFrames == 2
MaxLayers == 2
MaxMaps == 3
MaxTensor == 2

(***************************************************************************)
(* The dataset descriptor (datasets/tryon_dataset.py, TryonDataset): the   *)
(* channel count of every named input.                                     *)
(***************************************************************************)
RGB_CHANNELS == 3

CHANNELS(name) ==
    CASE name = "agnostic"   -> 22
      [] name = "cloth"      -> RGB_CHANNELS
      [] name = "cloth_mask" -> 1
      [] name = "densepose"  -> 3
      [] name = "flow"       -> 2

None == "None"

\* an absent (None) tensor argument; a present tensor is its shape
NoTensor == <<>>

\* ceil(a / b) for a >= 0, b > 0
CeilDivUp(a, b) == (a + b - 1) \div b

\* max() of Python
PyMax(a, b) == IF a >= b THEN a ELSE b

\* int(base ** e) for base > 1: exact for e >= 0; for e < 0 the power is a
\* float strictly between 0 and 1, which int() truncates to 0.
PyPow(base, e) == IF e < 0 THEN 0 ELSE base ^ e

\* range() taken to include its stop
PyRangeInclusive(start, stop, step) ==
    LET n == IF step > 0
             THEN IF stop >= start THEN (stop - start) \div step + 1 ELSE 0
             ELSE IF start >= stop THEN (start - stop) \div (-step) + 1 ELSE 0
    IN  [i \in 1 .. n |-> start + (i - 1) * step]

\* list(range(start, stop, step)), step # 0
PyRange(start, stop, step) ==
    LET n == IF step > 0
             THEN IF stop > start THEN (stop - start + step - 1) \div step ELSE 0
             ELSE IF start > stop THEN (start - stop + (-step) - 1) \div (-step) ELSE 0
    IN  [i \in 1 .. n |-> start + (i - 1) * step]

(***************************************************************************)
(* The stages of the generator pipeline.                                   *)
(***************************************************************************)
Conv2d(in_feat, out_feat) ==
    [kind |-> "Conv2d", in_feat |-> in_feat, out_feat |-> out_feat,
     spade_class |-> None, label_nc |-> 0, label_dict |-> <<>>, scale |-> None]

\* nn.Upsample(scale_factor = 0.5) and nn.Upsample(scale_factor = 2)
Upsample(scale) ==
    [kind |-> "Upsample", in_feat |-> 0, out_feat |-> 0,
     spade_class |-> None, label_nc |-> 0, label_dict |-> <<>>, scale |-> scale]

\* AnySpadeResBlock(in_feat, out_feat, norm_G, label_channels, spade_class);
\* kw.label_nc is the integer label_channels of the encoder, kw.label_dict the
\* name -> channels dictionary of the middle and the decoder.
AnySpadeResBlock(in_feat, out_feat, kw) ==
    [kind |-> "AnySpadeResBlock", in_feat |-> in_feat, out_feat |-> out_feat,
     spade_class |-> kw.spade_class, label_nc |-> kw.label_nc,
     label_dict |-> kw.label_dict, scale |-> None]

\* AnySpadeResBlock then downsample
make_encode_block(in_feat, out_feat, kw) ==
    << AnySpadeResBlock(in_feat, out_feat, kw), Upsample("0.5") >>

\* Upsample then AnySpadeResBlock
make_decode_block(in_feat, out_feat, kw) ==
    << Upsample("2"), AnySpadeResBlock(in_feat, out_feat, kw) >>

(***************************************************************************)
(* SamsGenerator.__init__                                                  *)
(***************************************************************************)
num_prev_frames(hp) == PyMax(hp.n_frames_total - 1, 1)

InChannels(hp) == RGB_CHANNELS * num_prev_frames(hp)

NGF_OUTER(hp) == PyPow(hp.ngf_base, hp.ngf_power_start)

NGF_INNER(hp) == PyPow(hp.ngf_base, hp.ngf_power_end)

enc_lab_c(hp) == CHANNELS(hp.encoder_input)

EncodeKwargs(hp) ==
    [spade_class |-> "SPADE",
     label_nc    |-> enc_lab_c(hp) * num_prev_frames(hp),
     label_dict  |-> <<>>]

\* sorted(self.inputs) over the names used here
NameOrder == << "agnostic", "cloth", "cloth_mask", "default_key", "densepose", "flow" >>

Rank(name) == CHOOSE i \in 1 .. Len(NameOrder) : NameOrder[i] = name

RECURSIVE SortedNames(_)
SortedNames(S) ==
    IF S = {} THEN <<>>
    ELSE LET m == CHOOSE x \in S : \A y \in S : Rank(x) <= Rank(y)
         IN  <<m>> \o SortedNames(S \ {m})

Range(s) == {s[i] : i \in DOMAIN s}

\* self.inputs = hparams.person_inputs + hparams.cloth_inputs
Inputs(hp) == hp.person_inputs \o hp.cloth_inputs

MiddleKwargs(hp) ==
    LET names == SortedNames(Range(Inputs(hp)))
    IN  [spade_class |-> IF hp.self_attn THEN "AttentiveMultiSpade" ELSE "MultiSpade",
         label_nc    |-> 0,
         label_dict  |-> [i \in DOMAIN names |-> << names[i], CHANNELS(names[i]) >>]]

\* the encoder's for loop: st = [layers, out_feat]
RECURSIVE EncodeLoop(_, _, _, _)
EncodeLoop(hp, pows, i, st) ==
    IF i > Len(pows) THEN st
    ELSE LET in_feat  == PyPow(hp.ngf_base, pows[i])
             out_feat == PyPow(hp.ngf_base, pows[i] + hp.ngf_power_step)
         IN  EncodeLoop(hp, pows, i + 1,
                 [layers   |-> st.layers \o make_encode_block(in_feat, out_feat, EncodeKwargs(hp)),
                  out_feat |-> out_feat])

\* a last block that keeps the width the loop ended on
EncodeTailUnforced(hp, out_feat) ==
    make_encode_block(out_feat, out_feat, EncodeKwargs(hp))

\* "ensure we get to exactly ngf_base ** ngf_power_end"
EncodeTail(hp, out_feat) ==
    make_encode_block(out_feat, NGF_INNER(hp), EncodeKwargs(hp))

BuildEncoder(hp) ==
    LET first == << Conv2d(InChannels(hp), NGF_OUTER(hp)) >>
        loop  == EncodeLoop(hp,
                     PyRange(hp.ngf_power_start, hp.ngf_power_end, hp.ngf_power_step),
                     1, [layers |-> first, out_feat |-> NGF_OUTER(hp)])
    IN  [layers   |-> loop.layers \o EncodeTail(hp, loop.out_feat),
         out_feat |-> loop.out_feat]

BuildMiddle(hp) ==
    [i \in 1 .. hp.num_middle |->
        AnySpadeResBlock(NGF_INNER(hp), NGF_INNER(hp), MiddleKwargs(hp))]

\* the decoder's for loop; out_feat enters with the value the encoder left in it
RECURSIVE DecodeLoop(_, _, _, _)
DecodeLoop(hp, pows, i, st) ==
    IF i > Len(pows) THEN st
    ELSE LET in_feat  == PyPow(hp.ngf_base, pows[i])
             out_feat == PyPow(hp.ngf_base, pows[i] - hp.ngf_power_step)
         IN  DecodeLoop(hp, pows, i + 1,
                 [layers   |-> st.layers \o make_decode_block(in_feat, out_feat, MiddleKwargs(hp)),
                  out_feat |-> out_feat])

\* a last block that keeps the width the loop ended on
DecodeTailUnforced(hp, out_feat) ==
    make_decode_block(out_feat, out_feat, MiddleKwargs(hp))
        \o << Conv2d(NGF_OUTER(hp), RGB_CHANNELS) >>

\* the forced last block down to NGF_OUTER, and the convolution to RGB
DecodeTail(hp, out_feat) ==
    make_decode_block(out_feat, NGF_OUTER(hp), MiddleKwargs(hp))
        \o << Conv2d(NGF_OUTER(hp), RGB_CHANNELS) >>

BuildDecoder(hp, enc_out_feat) ==
    LET loop == DecodeLoop(hp,
                    PyRange(hp.ngf_power_end, hp.ngf_power_start, -hp.ngf_power_step),
                    1, [layers |-> <<>>, out_feat |-> enc_out_feat])
    IN  loop.layers \o DecodeTail(hp, loop.out_feat)

\* only the first of the two assertions
HparamsAcceptedBaseOnly(hp) == hp.ngf_base > 1

\* the two assertions that open __init__
HparamsAccepted(hp) == hp.ngf_base > 1 /\ hp.ngf_power_end >= 1

Hparams ==
    [ngf_base        : 1 .. MaxBase,
     ngf_power_start : 0 .. MaxPow,
     ngf_power_end   : 0 .. MaxPow,
     ngf_power_step  : 1 .. MaxStep,
     num_middle      : 0 .. MaxMiddle,
     n_frames_total  : 1 .. MaxFrames,
     self_attn       : BOOLEAN,
     encoder_input   : {"densepose", "flow"},
     person_inputs   : {<< "agnostic", "densepose" >>},
     cloth_inputs    : {<< "cloth" >>}]

NoArgs ==
    [prev_n_frames_G |-> NoTensor, prev_n_labelmaps |-> NoTensor,
     current_labelmap_dict |-> <<>>]

NoForward == [status |-> None, args |-> NoArgs, x |-> <<>>, labelmaps |-> <<>>, calls |-> <<>>]

GenInit ==
    /\ hparams = None
    /\ gen_status = "new"
    /\ in_channels = 0
    /\ encode_layers = <<>>
    /\ middle_layers = <<>>
    /\ decode_layers = <<>>
    /\ fwd = NoForward

SamsGenerator_init(hp) ==
    /\ gen_status = "new"
    /\ hparams' = hp
    /\ fwd' = fwd
    /\ IF ~HparamsAccepted(hp)
       THEN /\ gen_status' = "AssertionError"
            /\ UNCHANGED <<in_channels, encode_layers, middle_layers, decode_layers>>
       ELSE LET enc == BuildEncoder(hp)
            IN  /\ gen_status' = "built"
                /\ in_channels' = InChannels(hp)
                /\ encode_layers' = enc.layers
                /\ middle_layers' = BuildMiddle(hp)
                /\ decode_layers' = BuildDecoder(hp, enc.out_feat)
    /\ UNCHANGED <<ms_vars, um_vars>>

(***************************************************************************)
(* SamsGenerator.forward.  A tensor is its shape.                          *)
(***************************************************************************)
\* the first value of the (insertion-ordered) dictionary
Reference(current_labelmap_dict) == current_labelmap_dict[1][2]

\* torch.zeros_like(reference)
ZerosLikeReference(reference, n_channels) == reference

\* torch.zeros(b, self.in_channels, h, w) from the 4-D reference
ZerosLike(reference, n_channels) ==
    << reference[1], n_channels, reference[3], reference[4] >>

\* t.view(b, -1, h, w) of a 5-D tensor b x n x c x h x w
ViewFrames(t) == << t[1], t[2] * t[3], t[4], t[5] >>

\* "prepare data, combine frames onto the channels dim"
PrepareData(hp, in_ch, prev_n_frames_G, prev_n_labelmaps, current_labelmap_dict) ==
    IF hp.n_frames_total > 1
    THEN IF prev_n_frames_G = NoTensor \/ prev_n_labelmaps = NoTensor
         THEN [status |-> "AttributeError", x |-> <<>>, labelmaps |-> <<>>]
         ELSE [status    |-> "ok",
               x         |-> ViewFrames(prev_n_frames_G),
               labelmaps |-> ViewFrames(prev_n_labelmaps)]
    ELSE [status    |-> "ok",
          x         |-> ZerosLike(Reference(current_labelmap_dict), in_ch),
          labelmaps |-> ZerosLike(Reference(current_labelmap_dict), in_ch)]

\* the encoder's blocks handed the dictionary of the current frame
EncoderCondCurrent(layer) ==
    IF layer.kind = "AnySpadeResBlock" THEN "current_labelmap_dict" ELSE None

\* the conditioning one stage is called with
EncoderCond(layer) ==
    IF layer.kind = "AnySpadeResBlock" THEN "prev_n_labelmaps" ELSE None

DecoderCond(layer) ==
    IF layer.kind = "AnySpadeResBlock" THEN "current_labelmap_dict" ELSE None

Call(stage, i, layer, cond) ==
    [stage |-> stage, idx |-> i, kind |-> layer.kind, cond |-> cond]

\* the three for loops of forward, as the list of calls they make
ForwardCalls(enc, mid, dec) ==
    [i \in DOMAIN enc |-> Call("encode", i, enc[i], EncoderCond(enc[i]))]
    \o [i \in DOMAIN mid |-> Call("middle", i, mid[i], "current_labelmap_dict")]
    \o [i \in DOMAIN dec |-> Call("decode", i, dec[i], DecoderCond(dec[i]))]

\* the batch and spatial sizes b, h, w of one call
Shapes4 == {<< b, 0, 4, 2 >> : b \in {1, 2}}

\* the current-frame dictionaries: one map per input name, all of one batch
\* and spatial size, inserted in the order of self.inputs or in sorted order
LabelmapDicts(hp, s) ==
    LET orders == {Inputs(hp), SortedNames(Range(Inputs(hp)))}
    IN  {[i \in DOMAIN o |-> << o[i], << s[1], CHANNELS(o[i]), s[3], s[4] >> >>] :
            o \in orders}

\* the previous frames and their label maps, b x n x c x h x w, or None
PrevInputs(hp, s) ==
    {[frames    |-> NoTensor, labelmaps |-> NoTensor],
     [frames    |-> << s[1], num_prev_frames(hp), RGB_CHANNELS, s[3], s[4] >>,
      labelmaps |-> << s[1], num_prev_frames(hp), enc_lab_c(hp), s[3], s[4] >>]}

\* forward assigns no attribute of the generator: one call is observed, from
\* the state __init__ left
SamsGenerator_forward(prev_n_frames_G, prev_n_labelmaps, current_labelmap_dict) ==
    /\ gen_status = "built"
    /\ fwd.status = None
    /\ LET args == [prev_n_frames_G |-> prev_n_frames_G,
                    prev_n_labelmaps |-> prev_n_labelmaps,
                    current_labelmap_dict |-> current_labelmap_dict]
           prep == PrepareData(hparams, in_channels, prev_n_frames_G,
                               prev_n_labelmaps, current_labelmap_dict)
       IN  fwd' = [status    |-> prep.status,
                   args      |-> args,
                   x         |-> prep.x,
                   labelmaps |-> prep.labelmaps,
                   calls     |-> IF prep.status = "ok"
                                 THEN ForwardCalls(encode_layers, middle_layers, decode_layers)
                                 ELSE <<>>]
    /\ UNCHANGED <<hparams, gen_status, in_channels, encode_layers, middle_layers,
                   decode_layers>>
    /\ UNCHANGED <<ms_vars, um_vars>>

GenNext ==
    \/ \E hp \in Hparams : SamsGenerator_init(hp)
    \/ /\ gen_status = "built"
       /\ fwd.status = None
       /\ \E s \in Shapes4 :
             \E prev \in PrevInputs(hparams, s), d \in LabelmapDicts(hparams, s) :
                SamsGenerator_forward(prev.frames, prev.labelmaps, d)

(***************************************************************************)
(* MultiSpade.  A dictionary is the sequence of its (key, value) items in  *)
(* insertion order, keys distinct.  A segmentation map is an identifier    *)
(* 1 .. MaxTensor.  A feature map is the chain of sub-layer applications   *)
(* that produced it from the input x, innermost first: <<>> is x itself    *)
(* and << <<k1, c1>>, <<k2, c2>> >> is L_k2(L_k1(x, c1), c2).              *)
(***************************************************************************)
DEFAULT_KEY == "default_key"

Keys(items) == [i \in DOMAIN items |-> items[i][1]]

HasKey(items, key) == \E i \in DOMAIN items : items[i][1] = key

\* MultiSpade.__init__: an int stands for one entry under DEFAULT_KEY; one
\* SPADE sub-layer is built per entry
MultiSpadeLayers(label_channels_dict) ==
    IF label_channels_dict.is_int
    THEN << << DEFAULT_KEY, label_channels_dict.n >> >>
    ELSE label_channels_dict.items

\* layer(x, segmap), layer the SPADE sub-layer stored under key
SPADE_forward(x, key, segmap) == Append(x, << key, segmap >>)

\* where sorted() places an item among already sorted items; keys are
\* distinct, so the tuples compare by key alone
InsertSorted(sorted, item) ==
    LET k == Cardinality({i \in DOMAIN sorted : Rank(sorted[i][1]) <= Rank(item[1])})
    IN  SubSeq(sorted, 1, k) \o << item >> \o SubSeq(sorted, k + 1, Len(sorted))

\* the items in insertion order
sort_fn_unsorted(items) == items

\* self.sort_fn(segmaps_dict.items()), sort_fn = sorted
RECURSIVE sort_fn(_)
sort_fn(items) ==
    IF items = <<>> THEN <<>>
    ELSE InsertSorted(sort_fn(SubSeq(items, 1, Len(items) - 1)), items[Len(items)])

\* wrapping under the first key whenever there is one
try_fix_first_key(layers, tensor) ==
    IF Len(layers) >= 1
    THEN [status |-> "ok", items |-> << << layers[1][1], tensor >> >>]
    ELSE [status |-> "ValueError", items |-> <<>>]

\* MultiSpade.try_fix_segmaps_dict
try_fix_segmaps_dict(layers, tensor) ==
    IF Len(layers) = 1
    THEN [status |-> "ok", items |-> << << layers[1][1], tensor >> >>]
    ELSE [status |-> "ValueError", items |-> <<>>]

\* no check of the counts
CountsUnchecked(items, layers) == TRUE

\* the assertion of forward
CountsMatch(items, layers) == Len(items) = Len(layers)

\* "run sequentially in the requested order": st = [status, x]
RECURSIVE RunLayers(_, _, _, _)
RunLayers(layers, items, i, st) ==
    IF i > Len(items) THEN st
    ELSE IF ~HasKey(layers, items[i][1])
         THEN [status |-> "KeyError", x |-> st.x]
         ELSE RunLayers(layers, items, i + 1,
                  [status |-> "ok", x |-> SPADE_forward(st.x, items[i][1], items[i][2])])

\* MultiSpade.forward(x, segmaps_dict)
MultiSpadeForward(layers, x, segmaps_dict) ==
    LET fixed == IF segmaps_dict.is_tensor
                 THEN try_fix_segmaps_dict(layers, segmaps_dict.tensor)
                 ELSE [status |-> "ok", items |-> segmaps_dict.items]
    IN  IF fixed.status # "ok" THEN [status |-> fixed.status, x |-> x]
        ELSE IF ~CountsMatch(fixed.items, layers)
             THEN [status |-> "AssertionError", x |-> x]
             ELSE RunLayers(layers, sort_fn(fixed.items), 1, [status |-> "ok", x |-> x])

\* the sequences of at most n distinct elements of S
RECURSIVE DistinctSeqs(_, _)
DistinctSeqs(S, n) ==
    IF n = 0 THEN {<<>>}
    ELSE LET shorter == DistinctSeqs(S, n - 1)
         IN  shorter \cup
             UNION {{Append(q, e) : e \in S \ Range(q)} :
                       q \in {r \in shorter : Len(r) = n - 1}}

ConfigKeys == {"agnostic", "cloth", "densepose"}

\* what MultiSpade is constructed with: a dictionary name -> channels, or an int
LabelChannelDicts ==
    {[is_int |-> FALSE, n |-> 0,
      items |-> [i \in DOMAIN q |-> << q[i], CHANNELS(q[i]) >>]] :
        q \in DistinctSeqs(ConfigKeys, MaxLayers)}
    \cup {[is_int |-> TRUE, n |-> RGB_CHANNELS, items |-> <<>>]}

AssignTensors(q) ==
    {[i \in DOMAIN q |-> << q[i], f[i] >>] : f \in [DOMAIN q -> 1 .. MaxTensor]}

\* what forward is called with: a dictionary name -> segmap, or a bare tensor
SegmapArgs ==
    {[is_tensor |-> FALSE, tensor |-> 0, items |-> d] :
        d \in UNION {AssignTensors(q) :
                        q \in DistinctSeqs(ConfigKeys \cup {DEFAULT_KEY}, MaxMaps)}}
    \cup {[is_tensor |-> TRUE, tensor |-> t, items |-> <<>>] : t \in 1 .. MaxTensor}

NoSegmaps == [is_tensor |-> FALSE, tensor |-> 0, items |-> <<>>]

MSInit ==
    /\ ms_status = "new"
    /\ spade_layers = <<>>
    /\ ms_out = [status |-> None, args |-> NoSegmaps, x |-> <<>>]

MultiSpade_init(label_channels_dict) ==
    /\ ms_status = "new"
    /\ ms_status' = "built"
    /\ spade_layers' = MultiSpadeLayers(label_channels_dict)
    /\ UNCHANGED ms_out
    /\ UNCHANGED <<gen_vars, um_vars>>

\* forward assigns no attribute of the stack: one call is observed, from the
\* state __init__ left
MultiSpade_forward(segmaps_dict) ==
    /\ ms_status = "built"
    /\ ms_out.status = None
    /\ LET r == MultiSpadeForward(spade_layers, <<>>, segmaps_dict)
       IN  ms_out' = [status |-> r.status, args |-> segmaps_dict, x |-> r.x]
    /\ UNCHANGED <<ms_status, spade_layers>>
    /\ UNCHANGED <<gen_vars, um_vars>>

MSNext ==
    \/ \E d \in LabelChannelDicts : MultiSpade_init(d)
    \/ /\ ms_out.status = None
       /\ \E a \in SegmapArgs : MultiSpade_forward(a)

(***************************************************************************)
(* UnetMaskModel.  A tensor is the sequence of its channels, one value per *)
(* channel (a one-pixel image, batch of one); NoTensor is None.  The       *)
(* network's raw outputs are saturated logits, so that tanh gives -1 or 1  *)
(* and sigmoid gives 0 or 1, the boundary values of the masks.             *)
(***************************************************************************)
Logits == {"-sat", "+sat"}

Pixels == {-1, 1}

\* F.tanh and F.sigmoid, channel by channel
Tanh(t) == [c \in DOMAIN t |-> IF t[c] = "+sat" THEN 1 ELSE -1]

Sigmoid(t) == [c \in DOMAIN t |-> IF t[c] = "+sat" THEN 1 ELSE 0]

\* t[:, from:to, :, :]
Slice(t, from, to) ==
    SubSeq(t, from + 1, IF to <= Len(t) THEN to ELSE Len(t))

\* list(torch.chunk(t, chunks, dim=1)): chunks of ceil(C / chunks) channels
Chunk(t, chunks) ==
    LET size  == CeilDivUp(Len(t), chunks)
        count == CeilDivUp(Len(t), size)
    IN  [i \in 1 .. count |-> Slice(t, (i - 1) * size, i * size)]

\* a blend-weight section whether or not flow is enabled
OutputNcWithWeights(hp) == 5 * hp.n_frames_total

\* output_nc of the UnetGenerator built by __init__
OutputNc(hp) == IF hp.flow THEN 5 * hp.n_frames_total ELSE 4 * hp.n_frames_total

\* the sections of outputs cut at boundary = 3n and weight_boundary = 4n
SplitOutputs(hp, outputs) ==
    LET n == hp.n_frames_total
        boundary == 3 * n
        weight_boundary == 4 * n
    IN  [p_rendereds  |-> Slice(outputs, 0, boundary),
         m_composites |-> Slice(outputs, boundary, weight_boundary),
         weight_masks |-> IF hp.flow
                          THEN Slice(outputs, weight_boundary, Len(outputs))
                          ELSE NoTensor]

\* no section has been cut
NoSplit == [p_rendereds |-> <<>>, m_composites |-> <<>>, weight_masks |-> NoTensor]

\* the tensor that holds in every channel the number of that channel
ChannelNumbers(t) == [c \in DOMAIN t |-> c - 1]

\* self.resample(self.prev_frame, flows): of a one-pixel image every flow
\* samples that one pixel
Resample2d(frame, flow) == frame

\* (1 - weight) * warp_flow + weight * p_rendered, the weight broadcast
Blend(weight, warp_flow, p_rendered) ==
    [c \in DOMAIN p_rendered |->
        (1 - weight[1]) * warp_flow[c] + weight[1] * p_rendered[c]]

\* wc * mask + p * (1 - mask), the mask broadcast
Composite(wc, p, mask) ==
    [c \in DOMAIN wc |-> wc[c] * mask[1] + p[c] * (1 - mask[1])]

\* an exception leaves forward; split tells which channels of outputs each
\* section held by then, prev_read the values self.prev_frame was read at
ForwardFailed(error) ==
    [status |-> error, p_rendereds |-> <<>>, m_composites |-> <<>>, p_tryons |-> <<>>,
     split |-> NoSplit, prev_read |-> <<>>]

\* lines 87-116 of forward: "only use second frame for warping"
SecondFrame(prev, flows_c, cloths_c, rendereds_c, composites_c, weights_c) ==
    IF Len(flows_c) < 2 \/ Len(cloths_c) < 2 \/ Len(rendereds_c) < 2
           \/ Len(composites_c) < 2
    THEN ForwardFailed("IndexError")
    ELSE IF weights_c = NoTensor THEN ForwardFailed("TypeError")
    ELSE IF Len(weights_c) < 2 THEN ForwardFailed("IndexError")
    ELSE IF prev = NoTensor
         THEN [ForwardFailed("AttributeError") EXCEPT !.prev_read = <<prev>>]
    ELSE LET warped_flows == Resample2d(prev, flows_c[2])
             p_rendereds_warped == << Blend(weights_c[2], warped_flows, rendereds_c[2]) >>
             \* zip([warped_cloths], p_rendereds_chunked, [m_composites]): the
             \* non-empty list p_rendereds_warped is truthy, and the zip stops
             \* after the first chunk
             p_tryons == Composite(cloths_c[2], rendereds_c[1], composites_c[2])
         IN  [status       |-> "ok",
              p_rendereds  |-> rendereds_c[2],
              m_composites |-> composites_c[2],
              p_tryons     |-> p_tryons,
              split        |-> NoSplit,
              prev_read    |-> <<prev>>]

\* UnetMaskModel.forward; outputs is what self.unet returns
UnetForward(hp, prev, outputs, warped_cloths, flows) ==
    LET n == hp.n_frames_total
        sections == SplitOutputs(hp, outputs)
        p_rendereds  == Tanh(sections.p_rendereds)
        m_composites == Sigmoid(sections.m_composites)
        weight_masks == IF sections.weight_masks = NoTensor THEN NoTensor
                        ELSE Sigmoid(sections.weight_masks)
        rest ==
            \* torch.chunk(None, ...)
            IF flows = NoTensor THEN ForwardFailed("TypeError")
            ELSE SecondFrame(prev, Chunk(flows, n), Chunk(warped_cloths, n),
                             Chunk(p_rendereds, n), Chunk(m_composites, n),
                             IF weight_masks = NoTensor THEN NoTensor
                             ELSE Chunk(weight_masks, n))
    IN  IF flows # NoTensor /\ ~(n <= 1) THEN ForwardFailed("AssertionError")
        ELSE [rest EXCEPT !.split = SplitOutputs(hp, ChannelNumbers(outputs))]

\* a tensor of `per` channels for each of n frames, the channels of one frame alike
Frames(per_frame, per) ==
    [c \in 1 .. Len(per_frame) * per |-> per_frame[((c - 1) \div per) + 1]]

\* what self.unet can return, a tensor of output_nc channels: per frame a
\* rendered value (3 channels), then per frame a composite-mask logit, and in
\* the channels that are left one blend-weight logit
UnetOutputs(hp) ==
    LET n == hp.n_frames_total
    IN  {[c \in 1 .. OutputNc(hp) |->
            IF c <= 3 * n THEN r[((c - 1) \div 3) + 1]
            ELSE IF c <= 4 * n THEN m[c - 3 * n]
            ELSE w] :
            r \in [1 .. n -> Logits], m \in [1 .. n -> Logits], w \in Logits}

\* the batches of the dataset after maybe_combine_frames_and_channels: the
\* frames of every input side by side on the channel axis, the frames of one
\* input alike
Batches(hp) ==
    LET n == hp.n_frames_total
    IN  [image    : {Frames([i \in 1 .. n |-> v], RGB_CHANNELS) : v \in Pixels},
         cloth    : {Frames([i \in 1 .. n |-> v], RGB_CHANNELS) : v \in Pixels},
         flow     : {Frames([i \in 1 .. n |-> 0], 2)},
         unet_out : UnetOutputs(hp)]

UnetHparams == [flow : BOOLEAN, n_frames_total : 1 .. MaxFrames]

UMInit ==
    /\ um_status = "new"
    /\ um_hparams = None
    /\ prev_frame = NoTensor
    /\ um_out = [step |-> None, status |-> None, flows |-> NoTensor,
                 outputs |-> <<>>, warped_cloths |-> <<>>,
                 p_rendereds |-> <<>>, m_composites |-> <<>>, p_tryons |-> <<>>,
                 split |-> NoSplit, prev_entry |-> NoTensor,
                 prev_read |-> <<>>, prev_writes |-> <<>>]

\* UnetMaskModel.__init__
UnetMaskModel_init(hp) ==
    /\ um_status = "new"
    /\ um_status' = "built"
    /\ um_hparams' = hp
    /\ prev_frame' = NoTensor
    /\ UNCHANGED um_out
    /\ UNCHANGED <<gen_vars, ms_vars>>

\* what a step did: the arguments and results of its forward pass, the
\* self.prev_frame it was entered with, and the values it read from and
\* assigned to self.prev_frame, in order
StepOut(step, r, outputs, warped_cloths, flows, prev_writes) ==
    [step |-> step, status |-> r.status, flows |-> flows, outputs |-> outputs,
     warped_cloths |-> warped_cloths,
     p_rendereds |-> r.p_rendereds, m_composites |-> r.m_composites,
     p_tryons |-> r.p_tryons,
     split |-> r.split, prev_entry |-> prev_frame,
     prev_read |-> r.prev_read, prev_writes |-> prev_writes]

\* UnetMaskModel.training_step: an exception of forward ends the step before
\* the second assignment of self.prev_frame
UnetMaskModel_training_step(batch) ==
    /\ um_status = "built"
    /\ LET im    == batch.image
           flow  == IF um_hparams.flow THEN batch.flow ELSE NoTensor
           first == Slice(im, 0, 3)
           r     == UnetForward(um_hparams, first, batch.unet_out, batch.cloth, flow)
           prev_writes == IF r.status = "ok" THEN <<first, im>> ELSE <<first>>
       IN  /\ prev_frame' = prev_writes[Len(prev_writes)]
           /\ um_out' = StepOut("training_step", r, batch.unet_out, batch.cloth,
                                flow, prev_writes)
    /\ UNCHANGED <<um_status, um_hparams>>
    /\ UNCHANGED <<gen_vars, ms_vars>>

\* UnetMaskModel.test_step; saved says that every save path already exists
UnetMaskModel_test_step(batch, saved) ==
    /\ um_status = "built"
    /\ IF saved
       THEN um_out' = StepOut("test_step", ForwardFailed("skipped"), <<>>, <<>>,
                              NoTensor, <<>>)
       ELSE LET r == UnetForward(um_hparams, prev_frame, batch.unet_out,
                                 batch.cloth, NoTensor)
            IN  um_out' = StepOut("test_step", r, batch.unet_out, batch.cloth,
                                  NoTensor, <<>>)
    /\ UNCHANGED <<um_status, um_hparams, prev_frame>>
    /\ UNCHANGED <<gen_vars, ms_vars>>

\* the batches a test step is tried on: a step that finds every save path
\* taken returns before it looks at a tensor of its batch, so one batch stands
\* for all of them
TestBatches(hp, saved) ==
    IF saved THEN {CHOOSE batch \in Batches(hp) : TRUE} ELSE Batches(hp)

UMNext ==
    \/ \E hp \in UnetHparams : UnetMaskModel_init(hp)
    \/ /\ um_status = "built"
       /\ \E batch \in Batches(um_hparams) : UnetMaskModel_training_step(batch)
    \/ /\ um_status = "built"
       /\ \E saved \in BOOLEAN :
             \E batch \in TestBatches(um_hparams, saved) :
                UnetMaskModel_test_step(batch, saved)

(***************************************************************************)
(* The specifications: one per component, the others left as constructed.  *)
(***************************************************************************)
Init ==
    /\ GenInit
    /\ MSInit
    /\ UMInit

SpecGen == Init /\ [][GenNext]_vars

SpecSpade == Init /\ [][MSNext]_vars

SpecUnet == Init /\ [][UMNext]_vars

(***************************************************************************)
(* Properties of the architecture builder.                                 *)
(***************************************************************************)
\* a valid HyperparameterConfig
ValidConfig(hp) ==
    /\ hp.ngf_base > 1
    /\ 0 <= hp.ngf_power_start
    /\ hp.ngf_power_start <= hp.ngf_power_end
    /\ hp.ngf_power_end >= 1
    /\ hp.ngf_power_step >= 1

Built == gen_status = "built" /\ ValidConfig(hparams)

UnevenStride(hp) ==
    (hp.ngf_power_end - hp.ngf_power_start) % hp.ngf_power_step # 0

IsBlock(layer) == layer.kind = "AnySpadeResBlock"

Blocks(layers) == SelectSeq(layers, IsBlock)

BlockInputs(layers) == [i \in DOMAIN Blocks(layers) |-> Blocks(layers)[i].in_feat]

Reverse(s) == [i \in DOMAIN s |-> s[Len(s) + 1 - i]]

Last(s) == s[Len(s)]

CeilDiv(a, b) == (a + b - 1) \div b

NumDownsample(layers) ==
    Cardinality({i \in DOMAIN layers :
                    layers[i].kind = "Upsample" /\ layers[i].scale = "0.5"})

\* C1: for every valid configuration the last encoder block outputs exactly
\* base^power_end, the width every middle block takes in, also when
\* (power_end - power_start) is not a multiple of power_step.
C1_BottleneckWidth ==
    Built =>
        /\ Blocks(encode_layers) # <<>>
        /\ Last(Blocks(encode_layers)).out_feat
              = hparams.ngf_base ^ hparams.ngf_power_end
        /\ \A i \in DOMAIN middle_layers :
              middle_layers[i].in_feat = Last(Blocks(encode_layers)).out_feat

C1_Witness ==
    /\ Built
    /\ UnevenStride(hparams)
    /\ Len(middle_layers) > 0
    /\ Last(Blocks(encode_layers)).out_feat = hparams.ngf_base ^ hparams.ngf_power_end

\* C2 as stated: the encoder holds ceil((power_end - power_start) / power_step)
\* downsampling stages.
C2_DownsampleCountAsStated ==
    Built =>
        NumDownsample(encode_layers)
            = CeilDiv(hparams.ngf_power_end - hparams.ngf_power_start,
                      hparams.ngf_power_step)

\* C2 amended: the encoder holds ceil((power_end - power_start) / power_step) + 1
\* downsampling stages: one per step of the loop and one for the block that is
\* always appended to land on base^power_end.
C2_DownsampleCount ==
    Built =>
        NumDownsample(encode_layers)
            = CeilDiv(hparams.ngf_power_end - hparams.ngf_power_start,
                      hparams.ngf_power_step) + 1

C2_Witness ==
    /\ Built
    /\ UnevenStride(hparams)
    /\ NumDownsample(encode_layers) = 3

\* C3: the input widths of the decoder's residual blocks are the input widths
\* of the encoder's residual blocks in reverse order.
C3_DecoderMirrorsEncoder ==
    Built => BlockInputs(decode_layers) = Reverse(BlockInputs(encode_layers))

(***************************************************************************)
(* Properties of the generator's forward pass.                             *)
(***************************************************************************)
ZeroFilled ==
    /\ fwd.status # None
    /\ hparams.n_frames_total <= 1
    /\ fwd.args.prev_n_frames_G = NoTensor
    /\ fwd.args.prev_n_labelmaps = NoTensor

\* C8: with n_frames_total <= 1 and no previous-frame inputs, forward does not
\* fail and feeds the encoder a tensor of shape (b, in_channels, h, w): b, h, w
\* those of the first current condition map, in_channels the width
\* RGB_CHANNELS * max(n_frames_total - 1, 1) the first convolution was built with.
C8_ZeroEncoderInput ==
    ZeroFilled =>
        LET first == fwd.args.current_labelmap_dict[1][2]
        IN  /\ fwd.status = "ok"
            /\ fwd.x = << first[1],
                          RGB_CHANNELS * PyMax(hparams.n_frames_total - 1, 1),
                          first[3], first[4] >>
            /\ fwd.x[2] = encode_layers[1].in_feat

C8_Witness ==
    /\ ZeroFilled
    /\ fwd.status = "ok"
    /\ fwd.x[2] = RGB_CHANNELS
    /\ fwd.args.current_labelmap_dict[1][2][2] # RGB_CHANNELS

\* C9: with n_frames_total <= 1 the substituted previous-condition map has as
\* many channels as the label channels the encoder's residual blocks were
\* built with, whatever the encoder input is.
C9_ZeroLabelmapChannels ==
    (fwd.status # None /\ hparams.n_frames_total <= 1) =>
        /\ fwd.status = "ok"
        /\ \A i \in DOMAIN encode_layers :
              IsBlock(encode_layers[i]) => fwd.labelmaps[2] = encode_layers[i].label_nc
(***************************************************************************)
(* Properties of MultiSpade.forward.                                       *)
(***************************************************************************)
Called == ms_out.status # None

KeySet(items) == {items[i][1] : i \in DOMAIN items}

CalledWithConfiguredKeys ==
    /\ Called
    /\ ~ms_out.args.is_tensor
    /\ KeySet(ms_out.args.items) = KeySet(spade_layers)

\* C4: called with a mapping whose keys are the configured keys, forward
\* returns L_kn(... L_k2(L_k1(x, c_k1), c_k2) ..., c_kn) for the keys in
\* ascending order k1 < ... < kn: a chain from the input x with one link per
\* supplied entry, each sub-layer with the map supplied under its own key and
\* the links in strictly ascending key order, whatever the insertion order.
C4_SortedSequentialComposition ==
    CalledWithConfiguredKeys =>
        /\ ms_out.status = "ok"
        /\ Len(ms_out.x) = Len(ms_out.args.items)
        /\ \A i \in DOMAIN ms_out.x : ms_out.x[i] \in Range(ms_out.args.items)
        /\ \A i, j \in DOMAIN ms_out.x :
              i < j => Rank(ms_out.x[i][1]) < Rank(ms_out.x[j][1])

C4_Witness ==
    /\ CalledWithConfiguredKeys
    /\ Len(spade_layers) = 2
    /\ Keys(ms_out.args.items) = << "cloth", "agnostic" >>
    /\ ms_out.x = << << "agnostic", ms_out.args.items[2][2] >>,
                     << "cloth", ms_out.args.items[1][2] >> >>
    /\ ms_out.args.items[1][2] # ms_out.args.items[2][2]

\* C5: called with a mapping of another size than the number of configured
\* sub-layers, forward fails its assertion and applies no sub-layer.
C5_CountMismatchFails ==
    (Called /\ ~ms_out.args.is_tensor
            /\ Len(ms_out.args.items) # Len(spade_layers)) =>
        /\ ms_out.status = "AssertionError"
        /\ ms_out.x = <<>>

C5_Witness ==
    /\ Called
    /\ ~ms_out.args.is_tensor
    /\ Len(spade_layers) = 2
    /\ Len(ms_out.args.items) = 1
    /\ KeySet(ms_out.args.items) \subseteq KeySet(spade_layers)
    /\ ms_out.status = "AssertionError"

\* C10: given a bare tensor, forward applies the sole sub-layer to it when
\* exactly one sub-layer is configured, and otherwise fails with ValueError
\* and applies no sub-layer.
C10_BareTensorWrap ==
    (Called /\ ms_out.args.is_tensor) =>
        IF Len(spade_layers) = 1
        THEN /\ ms_out.status = "ok"
             /\ ms_out.x = << << spade_layers[1][1], ms_out.args.tensor >> >>
        ELSE /\ ms_out.status = "ValueError"
             /\ ms_out.x = <<>>

C10_WitnessWrapped ==
    /\ Called
    /\ ms_out.args.is_tensor
    /\ Len(spade_layers) = 1
    /\ ms_out.status = "ok"
    /\ Len(ms_out.x) = 1
(***************************************************************************)
(* Properties of the temporal compositor.                                  *)
(***************************************************************************)
ForwardRan == um_out.status \notin {None, "skipped"}

\* frame f of a tensor holding `per` channels per frame
FrameOf(t, f, per) == SubSeq(t, (f - 1) * per + 1, f * per)

RenderedOf(f) == Tanh(FrameOf(um_out.outputs, f, RGB_CHANNELS))

MaskOf(f) == Sigmoid(<< um_out.outputs[RGB_CHANNELS * um_hparams.n_frames_total + f] >>)

WeightOf(f) ==
    Sigmoid(<< um_out.outputs[(RGB_CHANNELS + 1) * um_hparams.n_frames_total + f] >>)

GarmentOf(f) == FrameOf(um_out.warped_cloths, f, RGB_CHANNELS)

AlphaComposite(garment, foreground, mask) ==
    [c \in DOMAIN garment |-> garment[c] * mask[1] + foreground[c] * (1 - mask[1])]

\* C6: called without a flow field, forward returns
\* garment * mask + rendered * (1 - mask) for a frame of the window.
C6_NoFlowComposite ==
    (ForwardRan /\ um_out.flows = NoTensor) =>
        /\ um_out.status = "ok"
        /\ \E f \in 1 .. um_hparams.n_frames_total :
              um_out.p_tryons = AlphaComposite(GarmentOf(f), RenderedOf(f), MaskOf(f))

\* C7: called with a flow field, forward returns
\* garment * mask + blended * (1 - mask) for a frame of the window, blended
\* being (1 - weight) * warp(prev_frame, flow) + weight * rendered.
C7_FlowComposite ==
    (ForwardRan /\ um_out.flows # NoTensor) =>
        /\ um_out.status = "ok"
        /\ \E f \in 1 .. um_hparams.n_frames_total :
              LET blended == [c \in 1 .. RGB_CHANNELS |->
                                 (1 - WeightOf(f)[1]) * prev_frame[c]
                                     + WeightOf(f)[1] * RenderedOf(f)[c]]
              IN  um_out.p_tryons = AlphaComposite(GarmentOf(f), blended, MaskOf(f))
(***************************************************************************)
(* Properties of the generator's construction checks.                      *)
(***************************************************************************)
NothingBuilt ==
    /\ in_channels = 0
    /\ encode_layers = <<>>
    /\ middle_layers = <<>>
    /\ decode_layers = <<>>

\* C11: constructing the generator fails with an assertion error exactly when
\* ngf_base <= 1 or ngf_power_end < 1, and then no encoder, middle or decoder
\* stage has been built; with ngf_base > 1 and ngf_power_end >= 1 the
\* construction goes through.
C11_ConfigurationChecks ==
    gen_status # "new" =>
        IF hparams.ngf_base <= 1 \/ hparams.ngf_power_end < 1
        THEN gen_status = "AssertionError" /\ NothingBuilt
        ELSE gen_status = "built" /\ encode_layers # <<>>

C11_Witness ==
    /\ gen_status = "AssertionError"
    /\ hparams.ngf_base > 1
    /\ hparams.ngf_power_end < 1
    /\ NothingBuilt
(***************************************************************************)
(* Properties of the compositor of UnetMaskModel.                          *)
(***************************************************************************)
\* the channels a, a + 1, ..., b - 1
ChannelRange(a, b) == [i \in 1 .. (b - a) |-> a + i - 1]

\* forward has cut the network output into its sections
SplitRan == um_out.split # NoSplit

\* C12: the network output has 3n + n channels, and n more when flow is
\* enabled; the split gives channels [0, 3n) to the rendered images, [3n, 4n)
\* to the composite masks and, only when flow is enabled, [4n, 5n) to the
\* blend weights; every channel of the output is in exactly one section.
C12_ChannelPartition ==
    SplitRan =>
        LET n == um_hparams.n_frames_total
            sections == um_out.split
        IN  /\ Len(um_out.outputs) = 3 * n + n + (IF um_hparams.flow THEN n ELSE 0)
            /\ sections.p_rendereds = ChannelRange(0, 3 * n)
            /\ sections.m_composites = ChannelRange(3 * n, 4 * n)
            /\ sections.weight_masks =
                   IF um_hparams.flow THEN ChannelRange(4 * n, 5 * n) ELSE NoTensor
            /\ sections.p_rendereds \o sections.m_composites \o sections.weight_masks
                   = ChannelNumbers(um_out.outputs)

C12_Witness ==
    /\ SplitRan
    /\ um_hparams.flow
    /\ um_hparams.n_frames_total = 2
    /\ um_out.split.weight_masks = <<8, 9>>
(***************************************************************************)
(* Properties of the previous-frame cache, self.prev_frame.                *)
(***************************************************************************)
\* C13: a training step assigns self.prev_frame exactly once, and a training
\* step with a flow field that follows another training step reads the cache
\* exactly once, finding the value the step before it wrote.
C13_CacheWrittenOnceReadNextStep ==
    um_out.step = "training_step" =>
        /\ Len(um_out.prev_writes) = 1
        /\ (um_out.flows # NoTensor /\ um_out.prev_entry # NoTensor) =>
               um_out.prev_read = << um_out.prev_entry >>

\* C14: with a window of two frames and a flow field, forward completes, and
\* what it warps and composites is slice 1 (the second) of every chunked tensor.
C14_TwoFrameFlowForward ==
    (ForwardRan /\ um_hparams.n_frames_total = 2 /\ um_out.flows # NoTensor) =>
        /\ um_out.status = "ok"
        /\ um_out.p_rendereds = RenderedOf(2)
        /\ um_out.m_composites = MaskOf(2)
(***************************************************************************)
(* Properties of the generator's pipeline.                                 *)
(***************************************************************************)
StageLayers(stage) ==
    CASE stage = "encode" -> encode_layers
      [] stage = "middle" -> middle_layers
      [] stage = "decode" -> decode_layers

\* C15: forward calls every encoder stage, then every middle block, then every
\* decoder stage, each list in its order; a residual block of the encoder is
\* handed the previous-frame condition map alone, a residual block of the
\* middle or the decoder the dictionary of the current frame, and a
\* convolution or a resolution-scale stage no conditioning at all.
C15_StageOrderAndConditioning ==
    fwd.status = "ok" =>
        LET ne == Len(encode_layers)
            nm == Len(middle_layers)
            nd == Len(decode_layers)
        IN  /\ Len(fwd.calls) = ne + nm + nd
            /\ \A k \in DOMAIN fwd.calls :
                  LET call  == fwd.calls[k]
                      place == IF k <= ne THEN << "encode", k >>
                               ELSE IF k <= ne + nm THEN << "middle", k - ne >>
                               ELSE << "decode", k - ne - nm >>
                      layer == StageLayers(place[1])[place[2]]
                  IN  /\ << call.stage, call.idx >> = place
                      /\ call.kind = layer.kind
                      /\ call.cond =
                             IF ~IsBlock(layer) THEN None
                             ELSE IF place[1] = "encode" THEN "prev_n_labelmaps"
                             ELSE "current_labelmap_dict"

C15_Witness ==
    /\ fwd.status = "ok"
    /\ middle_layers # <<>>
    /\ \E i, j, k \in DOMAIN fwd.calls :
          /\ i < j /\ j < k
          /\ fwd.calls[i].stage = "encode" /\ fwd.calls[i].cond = "prev_n_labelmaps"
          /\ fwd.calls[j].stage = "middle" /\ fwd.calls[j].cond = "current_labelmap_dict"
          /\ fwd.calls[k].stage = "decode" /\ fwd.calls[k].cond = "current_labelmap_dict"
    /\ fwd.calls[1].cond = None

HasWidth(layer) == layer.kind # "Upsample"

\* the convolutions and residual blocks of the whole pipeline, in order
WidthStages ==
    SelectSeq(encode_layers \o middle_layers \o decode_layers, HasWidth)

\* C16: for every valid configuration the first convolution outputs
\* base^power_start, every stage of encoder, middle and decoder takes in the
\* width the stage before it puts out, and the last decoder block outputs
\* base^power_start, the width the final convolution takes in.
C16_ChannelConsistentPipeline ==
    Built =>
        LET outer == PyPow(hparams.ngf_base, hparams.ngf_power_start)
            nd    == Len(decode_layers)
        IN  /\ encode_layers[1].kind = "Conv2d"
            /\ encode_layers[1].out_feat = outer
            /\ \A i \in 1 .. (Len(WidthStages) - 1) :
                  WidthStages[i].out_feat = WidthStages[i + 1].in_feat
            /\ IsBlock(decode_layers[nd - 1])
            /\ decode_layers[nd - 1].out_feat = outer
            /\ decode_layers[nd].kind = "Conv2d"
            /\ decode_layers[nd].in_feat = outer

C16_Witness ==
    /\ Built
    /\ UnevenStride(hparams)
    /\ hparams.ngf_power_start >= 1
    /\ middle_layers # <<>>
    /\ Len(Blocks(decode_layers)) >= 2
    /\ Last(Blocks(decode_layers)).out_feat = Last(decode_layers).in_feat
    /\ Last(Blocks(encode_layers)).out_feat = middle_layers[1].in_feat
====
